---- MODULE Spec2Model ----
(***************************************************************************)
(* cue-pine: manifest-driven install / uninstall of files by symlink,      *)
(* download or git clone (src/cue-pine.py).                                 *)
(*                                                                          *)
(* Strings are sequences of chunks.  The chunks "." and "/" are the two     *)
(* characters the program inspects; every other chunk is a run of other    *)
(* characters ("http", "git", "$HOME", "a", ...), so rsplit('.'),           *)
(* rpartition('/'), endswith('.git'), startswith('http') and                *)
(* replace('$HOME', ..) are computed on the sequence as Python computes     *)
(* them on the text.                                                        *)
(*                                                                          *)
(* The filesystem is a function from canonical paths (sequences of path     *)
(* components, the root being << >>) to entries: plain files, directories   *)
(* and symbolic links with their target text.                               *)
(***************************************************************************)
EXTENDS Integers, Sequences, FiniteSets, TLC

VARIABLES
    manifests,       \* what os.walk('.') finds: <<[cwd, config]>> in walk order
    fs,              \* the filesystem
    cwd,             \* the process working directory (absolute text)
    args,            \* the parsed command line of the current run
    runs,            \* number of invocations started so far
    pc,              \* position of the current run in the program
    mi,              \* index of the manifest being processed
    gi,              \* index of the installation group being processed
    ii,              \* index of the item of the group: files first, then renamed_files
    hi,              \* index of the pre/post command
    original_pos,    \* process_config_file: saved working directory
    all_deps,        \* process_config_file: result of the dependency check
    dir,             \* process_installation: resolved directory of the group
    done_something,  \* process_installation: whether an item of the group acted
    fs0,             \* the filesystem when the current run started
    out,             \* what the current run did and reported, in order
    hist             \* the finished runs: <<[args, fs0, fs, out, pc]>>

vars == <<manifests, fs, cwd, args, runs, pc, mi, gi, ii, hi, original_pos,
          all_deps, dir, done_something, fs0, out, hist>>

----------------------------------------------------------------------------
(* Bounds *)

MaxRuns == 2       \* invocations of the program in one behaviour
MaxHops == 3       \* symbolic links followed while resolving one path

----------------------------------------------------------------------------
(* Text *)

Dot == "."
Sep == "/"

Front(s) == SubSeq(s, 1, Len(s) - 1)
Last(s) == s[Len(s)]

\* Position of the last occurrence of chunk c in s, 0 when there is none.
LastIndexOf(s, c) ==
    LET hits == {i \in 1..Len(s) : s[i] = c}
    IN  IF hits = {} THEN 0 ELSE CHOOSE i \in hits : \A j \in hits : j <= i

\* file.rsplit('.', 1)[0]
RsplitDot(s) ==
    LET k == LastIndexOf(s, Dot)
    IN  IF k = 0 THEN s ELSE SubSeq(s, 1, k - 1)

\* file.rpartition('/')[-1]
RpartitionSep(s) ==
    LET k == LastIndexOf(s, Sep)
    IN  SubSeq(s, k + 1, Len(s))

\* src.endswith('.git')
EndsWithGit(s) ==
    /\ Len(s) >= 2
    /\ s[Len(s) - 1] = Dot
    /\ s[Len(s)] = "git"

\* src.startswith('http')
StartsWithHttp(s) == Len(s) >= 1 /\ s[1] = "http"

HOME == <<Sep, "h">>     \* os.getenv('HOME')
StartDir == <<Sep, "w">> \* the directory the program is started in

\* content['dir'].replace('$HOME', os.getenv('HOME'))
RECURSIVE ReplaceHome(_)
ReplaceHome(s) ==
    IF s = << >> THEN << >>
    ELSE (IF Head(s) = "$HOME" THEN HOME ELSE <<Head(s)>>) \o ReplaceHome(Tail(s))

----------------------------------------------------------------------------
(* Paths *)

\* The components of a path text: the text between separators, empty ones dropped.
RECURSIVE Split(_)
Split(s) ==
    IF s = << >> THEN << >>
    ELSE LET k == CHOOSE i \in 1..(Len(s) + 1) :
                    /\ (i = Len(s) + 1 \/ s[i] = Sep)
                    /\ \A j \in 1..(i - 1) : s[j] # Sep
             first == SubSeq(s, 1, k - 1)
             rest == SubSeq(s, k + 1, Len(s))
         IN  (IF first = << >> THEN << >> ELSE <<first>>) \o Split(rest)

IsAbs(s) == Len(s) >= 1 /\ s[1] = Sep

\* The components of a path as the kernel reads it from working directory w.
Comps(w, s) == IF IsAbs(s) THEN Split(s) ELSE Split(w) \o Split(s)

File == [kind |-> "file", target |-> << >>]
Dir == [kind |-> "dir", target |-> << >>]
Link(t) == [kind |-> "link", target |-> t]

Ok(p) == [st |-> "ok", path |-> p]
Err(e) == [st |-> e, path |-> << >>]

\* Path resolution following every symbolic link (stat): cur is the canonical
\* path of a directory already reached, rest the components still to walk.
RECURSIVE Walk(_, _, _, _)
Walk(f, cur, rest, hops) ==
    IF rest = << >> THEN Ok(cur)
    ELSE LET q == Append(cur, Head(rest)) IN
         IF q \notin DOMAIN f THEN Err("FileNotFoundError")
         ELSE IF f[q].kind = "link"
              THEN IF hops = 0 THEN Err("OSError")
                   ELSE Walk(f, << >>, Split(f[q].target) \o Tail(rest), hops - 1)
         ELSE IF f[q].kind = "dir" THEN Walk(f, q, Tail(rest), hops)
         ELSE IF Tail(rest) = << >> THEN Ok(q)
         ELSE Err("NotADirectoryError")

IsDirAt(f, p) == p = << >> \/ (p \in DOMAIN f /\ f[p].kind = "dir")

\* os.path.exists(path): false for a missing path and for a dangling link
Exists(f, c) == Walk(f, << >>, c, MaxHops).st = "ok"

\* Resolution of everything but the last component (lstat): where the entry
\* named by c lives, or the error of reaching its parent directory.
Locate(f, c) ==
    IF c = << >> THEN Err("OSError")
    ELSE LET r == Walk(f, << >>, Front(c), MaxHops) IN
         IF r.st # "ok" THEN r
         ELSE IF ~IsDirAt(f, r.path) THEN Err("NotADirectoryError")
         ELSE Ok(Append(r.path, Last(c)))

Raise(f, e) == [err |-> e, fs |-> f]
Return(f) == [err |-> "none", fs |-> f]

Put(f, p, e) == [q \in DOMAIN f \cup {p} |-> IF q = p THEN e ELSE f[q]]
Drop(f, p) == [q \in DOMAIN f \ {p} |-> f[q]]

\* os.remove(path)
OsRemove(f, c) ==
    LET l == Locate(f, c) IN
    IF l.st # "ok" THEN Raise(f, l.st)
    ELSE IF l.path \notin DOMAIN f THEN Raise(f, "FileNotFoundError")
    ELSE IF f[l.path].kind = "dir" THEN Raise(f, "IsADirectoryError")
    ELSE Return(Drop(f, l.path))

\* os.symlink(target, path)
OsSymlink(f, target, c) ==
    LET l == Locate(f, c) IN
    IF l.st # "ok" THEN Raise(f, l.st)
    ELSE IF l.path \in DOMAIN f THEN Raise(f, "FileExistsError")
    ELSE Return(Put(f, l.path, Link(target)))

\* os.mkdir(path)
OsMkdir(f, c) ==
    LET l == Locate(f, c) IN
    IF l.st # "ok" THEN Raise(f, l.st)
    ELSE IF l.path \in DOMAIN f THEN Raise(f, "FileExistsError")
    ELSE Return(Put(f, l.path, Dir))

\* os.makedirs(path): the missing ancestors first, a FileExistsError of theirs
\* is swallowed, then the leaf
RECURSIVE OsMakedirs(_, _)
OsMakedirs(f, c) ==
    LET up == IF Len(c) > 1 /\ ~Exists(f, Front(c))
              THEN OsMakedirs(f, Front(c))
              ELSE Return(f)
    IN  IF up.err \notin {"none", "FileExistsError"} THEN up
        ELSE OsMkdir(up.fs, c)

\* request.urlretrieve(url, path): the resource is written to a new file
UrlRetrieve(f, c) ==
    LET l == Locate(f, c) IN
    IF l.st # "ok" THEN Raise(f, l.st)
    ELSE IF l.path \in DOMAIN f /\ f[l.path].kind = "dir" THEN Raise(f, "IsADirectoryError")
    ELSE Return(Put(f, l.path, File))

\* subprocess.run(["git", "clone", src, path]): git creates the leading
\* directories and the work tree with its .git directory; a failure of git is
\* an exit code nobody reads, never an exception
GitClone(f, c) ==
    LET made == OsMakedirs(f, c) IN
    IF made.err # "none" THEN Return(f)
    ELSE LET l == Locate(made.fs, c)
         IN  Return(Put(made.fs, Append(l.path, <<Dot, "git">>), Dir))

----------------------------------------------------------------------------
(* The program's inputs: manifests, command lines, starting filesystems *)

NoKey == <<"<absent>">>      \* an optional key the manifest does not hold

\* source specifiers
SA == <<"a", Dot, "s">>                                         \* a.s
SSub == <<"s", Sep, "a", Dot, "s">>                             \* s/a.s
SDotDir == <<"s", Dot, "d", Sep, "a">>                          \* s.d/a
SMissing == <<"b">>                                             \* b, not on disk
SUrl == <<"http", ":", Sep, Sep, "x", Sep, "f">>                \* http://x/f
SGit == <<"http", ":", Sep, Sep, "x", Sep, "r", Dot, "git">>    \* http://x/r.git
Specifiers == {SA, SSub, SDotDir, SMissing, SUrl, SGit}

FilesChoices ==
    {<< >>} \cup {<<s>> : s \in Specifiers} \cup {<<SA, SSub>>, <<SMissing, SA>>}

Renames ==
    { [src |-> SA, dest |-> <<"y">>],
      [src |-> SSub, dest |-> SA],
      [src |-> SA, dest |-> <<"t", Sep, "y">>] }

RenamedChoices == {<< >>} \cup {<<m>> : m \in Renames}

DirHome == <<"$HOME", Sep, "d">>     \* $HOME/d
Dirs == {DirHome, StartDir}

Group(d, s, c, fl, rl) ==
    [dir |-> d, strip_ext |-> s, condition |-> c, files |-> fl, renamed_files |-> rl]

Config(deps, opt, pre, post, inst) ==
    [dependencies |-> deps, opt_dependencies |-> opt, pre |-> pre, post |-> post,
     installation |-> inst]

CmdOk == <<"exit 0">>
CmdFail == <<"exit 1">>

\* manifests that vary the installation groups
ItemConfigs ==
    { Config(<< >>, << >>, << >>, << >>, <<Group(d, s, NoKey, fl, rl)>>) :
        d \in Dirs, s \in BOOLEAN, fl \in FilesChoices, rl \in RenamedChoices }

\* manifests that vary dependencies, hooks and the group's condition
DepChoices == {<< >>, <<"sh">>, <<"nope">>, <<"sh", "nope">>}
OptChoices == {<< >>, <<"nope">>}
PreChoices == {<< >>, <<CmdOk>>, <<CmdFail, CmdOk>>}
PostChoices == {<< >>, <<CmdFail, CmdOk>>}
Conditions == {NoKey, CmdOk, CmdFail}

PhaseConfigs ==
    { Config(deps, opt, pre, post, <<Group(DirHome, FALSE, c, <<SA>>, << >>)>>) :
        deps \in DepChoices, opt \in OptChoices, pre \in PreChoices,
        post \in PostChoices, c \in Conditions }

Args(u, d, s, c) ==
    [uninstall |-> u, dry_run |-> d, strict_pre |-> s, check_dependencies |-> c]

AllArgs == {Args(u, d, s, c) : u \in BOOLEAN, d \in BOOLEAN, s \in BOOLEAN, c \in BOOLEAN}
PlainArgs == {Args(u, d, FALSE, FALSE) : u \in BOOLEAN, d \in BOOLEAN}
RealArgs == {Args(u, FALSE, FALSE, FALSE) : u \in BOOLEAN}

\* executables shutil.which finds on the search path
OnPath == {"sh", "git"}

P(s) == Split(s)

BaseFs ==
    LET present == { P(<<Sep, "w">>), P(<<Sep, "w", Sep, "s">>),
                     P(<<Sep, "w", Sep, "s", Dot, "d">>), P(<<Sep, "h">>) }
        files == { P(<<Sep, "w", Sep, "a", Dot, "s">>),
                   P(<<Sep, "w", Sep, "s", Sep, "a", Dot, "s">>),
                   P(<<Sep, "w", Sep, "s", Dot, "d", Sep, "a">>) }
    IN  [p \in present \cup files |-> IF p \in files THEN File ELSE Dir]

Gone == <<Sep, "w", Sep, "gone">>      \* a link target that does not exist

HD == P(<<Sep, "h", Sep, "d">>)

\* what the destinations hold before the first run
StartingFs ==
    LET withDir == Put(BaseFs, HD, Dir) IN
    { BaseFs,
      withDir,
      Put(withDir, Append(HD, SA), File),
      Put(withDir, Append(HD, SA), Link(Gone)),
      Put(withDir, Append(HD, <<"y">>), Link(Gone)) }

PhaseStartingFs == {BaseFs}

\* a manifest with two groups; the first one names a source that is not on disk
DirOther == <<"$HOME", Sep, "e">>    \* $HOME/e
TwoGroupConfigs ==
    { Config(<< >>, << >>, << >>, << >>,
             <<Group(DirHome, FALSE, NoKey, fl, << >>),
               Group(DirOther, TRUE, NoKey, <<SA>>, << >>)>>) :
        fl \in {<<SMissing>>, <<SMissing, SA>>} }

\* two manifests: one in the start directory, one in its sub-directory m
SubDir == <<"m">>
FirstConfigs ==
    { Config(deps, << >>, pre, << >>, <<Group(DirHome, FALSE, NoKey, <<SA>>, << >>)>>) :
        deps \in {<< >>, <<"nope">>}, pre \in {<< >>, <<CmdFail>>} }
SecondConfig ==
    Config(<< >>, << >>, << >>, << >>,
           <<Group(DirHome, FALSE, NoKey, << >>, <<[src |-> SA, dest |-> <<"z">>]>>)>>)

Found(rel, config) == [cwd |-> rel, config |-> config]
OneManifest(c) == <<Found(<< >>, c)>>
\* a second manifest whose pre command fails and whose item cannot be linked
\* ($HOME/d/t is not on disk)
SecondFailing ==
    Config(<< >>, << >>, <<CmdFail>>, <<CmdOk>>,
           <<Group(DirHome, FALSE, NoKey, << >>,
                   <<[src |-> SA, dest |-> <<"t", Sep, "y">>]>>)>>)
TwoManifests ==
    { <<Found(<< >>, c), Found(SubDir, d)>> :
        c \in FirstConfigs, d \in {SecondConfig, SecondFailing} }

\* one manifest with hooks around a group whose second item cannot be linked
HooksAroundFailure ==
    Config(<<"sh">>, << >>, <<CmdFail, CmdOk>>, <<CmdOk>>,
           <<Group(DirHome, FALSE, NoKey, <<SA>>,
                   <<[src |-> SA, dest |-> <<"t", Sep, "y">>]>>)>>)

TwoManifestsFs ==
    Put(Put(BaseFs, P(StartDir \o <<Sep>> \o SubDir), Dir),
        P(StartDir \o <<Sep>> \o SubDir \o <<Sep>> \o SA), File)

\* the same with the first manifest's item installed by an earlier invocation
TwoManifestsInstalled ==
    Put(Put(TwoManifestsFs, HD, Dir), Append(HD, SA), Link(StartDir \o <<Sep>> \o SA))

----------------------------------------------------------------------------
(* The program *)

\* one line of what a run does: the step (ev), the manifest (m) and group or
\* command (g) it belongs to, the item, what is printed (res), what is raised (err)
Event(e, g, s, d, r, x) ==
    [ev |-> e, m |-> mi, g |-> g, src |-> s, dest |-> d, res |-> r, err |-> x]

\* an external command run through the shell: its exit code
ExitCode(command) == IF command = CmdOk THEN 0 ELSE 1

\* os.chdir(cwd) for a directory os.walk reports ('.' is << >>)
Chdir(w, rel) == IF rel = << >> THEN w ELSE w \o <<Sep>> \o rel

\* a check that is content with one dependency found
check_dependencies_any(config) ==
    \/ config.dependencies = << >>
    \/ \E i \in 1..Len(config.dependencies) : config.dependencies[i] \in OnPath

\* check_dependencies(config): whether every mandatory dependency is found
check_dependencies(config) ==
    \/ config.dependencies = << >>
    \/ \A i \in 1..Len(config.dependencies) : config.dependencies[i] \in OnPath

\* a gate that forgets the check-only flag
PhasesEntered_unflagged(deps_ok, a) == deps_ok

\* process_config_file, line 289: whether the three phases are entered
PhasesEntered(deps_ok, a) == deps_ok /\ ~a.check_dependencies

\* process_installation, lines 244-249: the name of a `files` item in the group directory
final_file(content, file) ==
    IF content.strip_ext THEN RsplitDot(file)
    ELSE IF Sep \in {file[i] : i \in 1..Len(file)} THEN RpartitionSep(file)
    ELSE file

\* f"{dir}/{final_file}"
Join(d, name) == d \o <<Sep>> \o name

\* process_installation, line 251: the (src, dest) pair of a `files` item
FileItem(content, d, file) == [src |-> file, dest |-> Join(d, final_file(content, file))]

\* a renamed item resolved the way a `files` item is
RenamedItem_resolved(content, d, mapping) ==
    [src |-> mapping.src, dest |-> Join(d, final_file(content, mapping.dest))]

\* process_installation, line 254: the (src, dest) pair of a `renamed_files` item
RenamedItem(content, d, mapping) == [src |-> mapping.src, dest |-> Join(d, mapping.dest)]

\* process_installation, line 239: whether the group directory is created
NeedsMakedirs(f, a, w, d) == ~(Exists(f, Comps(w, d)) \/ a.uninstall \/ a.dry_run)

Result(rep, ret, r) == [rep |-> rep, ret |-> ret, err |-> r.err, fs |-> r.fs]

\* a process() that leaves a dangling link where it is
Cleanup_kept(f, a, exists, c) == Return(f)

\* process, lines 174-180: a dangling link at dest is removed
Cleanup(f, a, exists, c) ==
    IF exists THEN Return(f)
    ELSE LET r == OsRemove(f, c)
         IN  IF r.err = "FileNotFoundError" THEN Return(f) ELSE r

\* process, lines 183-187: the uninstall of an existing destination
Uninstall(f, a, c) == IF a.dry_run THEN Return(f) ELSE OsRemove(f, c)

\* an install that links a local source without looking for it
Install_unchecked(f, a, w, src, c) ==
    IF EndsWithGit(src)
    THEN Result("action", TRUE, IF a.dry_run THEN Return(f) ELSE GitClone(f, c))
    ELSE IF StartsWithHttp(src)
    THEN Result("action", TRUE, IF a.dry_run THEN Return(f) ELSE UrlRetrieve(f, c))
    ELSE Result("action", TRUE,
                IF a.dry_run THEN Return(f)
                ELSE OsSymlink(f, w \o <<Sep>> \o src, c))

\* process, lines 190-202: the install of an absent destination
Install(f, a, w, src, c) ==
    IF EndsWithGit(src)
    THEN Result("action", TRUE, IF a.dry_run THEN Return(f) ELSE GitClone(f, c))
    ELSE IF StartsWithHttp(src)
    THEN Result("action", TRUE, IF a.dry_run THEN Return(f) ELSE UrlRetrieve(f, c))
    ELSE IF ~Exists(f, Comps(w, src))
    THEN Result("missing", FALSE, Return(f))
    ELSE Result("action", TRUE,
                IF a.dry_run THEN Return(f)
                ELSE OsSymlink(f, w \o <<Sep>> \o src, c))

\* process(src, dest) in working directory w: what is reported (rep), what is
\* returned (ret), the exception that escapes (err) and the filesystem left
process(f, a, w, src, dest) ==
    LET c == Comps(w, dest)
        exists == Exists(f, c)
        cleaned == Cleanup(f, a, exists, c)
    IN  IF cleaned.err # "none" THEN Result("none", FALSE, cleaned)
        ELSE IF exists /\ a.uninstall
        THEN Result("action", TRUE, Uninstall(cleaned.fs, a, c))
        ELSE IF ~(exists \/ a.uninstall)
        THEN Install(cleaned.fs, a, w, src, c)
        ELSE Result("none", FALSE, cleaned)

CurConfig == manifests[mi].config
CurGroup == CurConfig.installation[gi]

\* Module level, line 57: the command line is parsed; the walk is about to start.
Inputs ==
    {<<f, OneManifest(c), a>> : f \in StartingFs, c \in ItemConfigs, a \in PlainArgs}
    \cup {<<f, OneManifest(c), a>> : f \in PhaseStartingFs, c \in PhaseConfigs, a \in AllArgs}
    \cup {<<f, OneManifest(c), a>> : f \in StartingFs, c \in TwoGroupConfigs, a \in PlainArgs}
    \cup {<<f, ms, a>> : f \in {TwoManifestsFs, TwoManifestsInstalled},
                          ms \in TwoManifests, a \in AllArgs}
    \cup {<<BaseFs, OneManifest(HooksAroundFailure), a>> : a \in AllArgs}

Init ==
    /\ \E in \in Inputs :
          /\ fs = in[1]
          /\ manifests = in[2]
          /\ args = in[3]
    /\ cwd = StartDir
    /\ runs = 1
    /\ pc = "walk"
    /\ mi = 1
    /\ gi = 0
    /\ ii = 0
    /\ hi = 0
    /\ original_pos = StartDir
    /\ all_deps = TRUE
    /\ dir = << >>
    /\ done_something = FALSE
    /\ fs0 = fs
    /\ out = << >>
    /\ hist = << >>

\* process_config_file, lines 266-283: enter the manifest's directory
EnterConfig ==
    /\ pc = "walk"
    /\ mi <= Len(manifests)
    /\ original_pos' = cwd
    /\ cwd' = Chdir(cwd, manifests[mi].cwd)
    /\ pc' = "deps"
    /\ UNCHANGED <<manifests, fs, args, runs, mi, gi, ii, hi, all_deps, dir,
                   done_something, fs0, out, hist>>

\* a dependency check that is also made when uninstalling
DepsChecked_always(a) == TRUE

\* process_config_file, line 286: whether check_dependencies is called
DepsChecked(a) == ~a.uninstall

\* process_config_file, lines 285-289: the dependency check and the gate
CheckDependencies ==
    /\ pc = "deps"
    /\ all_deps' = IF DepsChecked(args) THEN check_dependencies(CurConfig) ELSE TRUE
    /\ out' = IF DepsChecked(args)
              THEN Append(out, Event("check_dependencies", 0, << >>, << >>,
                                     IF all_deps' THEN "met" ELSE "unmet", "none"))
              ELSE out
    /\ pc' = IF PhasesEntered(all_deps', args) THEN "pre" ELSE "leave"
    /\ hi' = 1
    /\ UNCHANGED <<manifests, fs, cwd, args, runs, mi, gi, ii, original_pos, dir,
                   done_something, fs0, hist>>

\* a --strict-pre that lets a failing command pass
StrictFailure_ignored(a, type, e_code) == FALSE

\* alt_process, line 222: whether the exit code of a command ends the program
StrictFailure(a, type, e_code) == a.strict_pre /\ e_code # 0 /\ type = "pre"

\* alt_process(type_, config), lines 216-224: one command of the loop
AltProcessStep(type) ==
    /\ pc = type
    /\ ~args.uninstall
    /\ hi <= Len(CurConfig[type])
    /\ LET command == CurConfig[type][hi]
           fatal == ~args.dry_run /\ StrictFailure(args, type, ExitCode(command))
       IN  /\ out' = Append(out, Event(type, hi, command, << >>,
                                       IF args.dry_run THEN "skipped" ELSE "called",
                                       IF fatal THEN "exit" ELSE "none"))
           /\ pc' = IF fatal THEN "exit" ELSE pc
           /\ hi' = IF fatal THEN hi ELSE hi + 1
    /\ UNCHANGED <<manifests, fs, cwd, args, runs, mi, gi, ii, original_pos,
                   all_deps, dir, done_something, fs0, hist>>

\* alt_process(type_, config), lines 212-213 and 225: nothing (left) to run
AltProcessReturn(type, next) ==
    /\ pc = type
    /\ args.uninstall \/ hi > Len(CurConfig[type])
    /\ pc' = next
    /\ hi' = 1
    /\ gi' = IF next = "install" THEN 1 ELSE gi
    /\ UNCHANGED <<manifests, fs, cwd, args, runs, mi, ii, original_pos, all_deps,
                   dir, done_something, fs0, out, hist>>

RunPre == AltProcessStep("pre")
PreDone == AltProcessReturn("pre", "install")
RunPost == AltProcessStep("post")
PostDone == AltProcessReturn("post", "leave")

\* process_installation, lines 234-240: a group is entered, its directory made
GroupStart ==
    /\ pc = "install"
    /\ gi <= Len(CurConfig.installation)
    /\ LET d == ReplaceHome(CurGroup.dir)
           need == NeedsMakedirs(fs, args, cwd, d)
           made == IF need THEN OsMakedirs(fs, Comps(cwd, d)) ELSE Return(fs)
       IN  /\ dir' = d
           /\ fs' = made.fs
           /\ out' = Append(out, Event("group", gi, << >>, d,
                                       IF need THEN "makedirs" ELSE "none", made.err))
           /\ pc' = IF made.err = "none" THEN "items" ELSE "crashed"
    /\ done_something' = FALSE
    /\ ii' = 1
    /\ UNCHANGED <<manifests, cwd, args, runs, mi, gi, hi, original_pos, all_deps,
                   fs0, hist>>

\* process_installation, lines 251 and 254: process(src, dest) for one item
ProcessItem(kind, item) ==
    LET r == process(fs, args, cwd, item.src, item.dest) IN
    /\ fs' = r.fs
    /\ out' = Append(out, Event(kind, gi, item.src, item.dest, r.rep, r.err))
    /\ pc' = IF r.err = "none" THEN pc ELSE "crashed"
    /\ done_something' = IF r.err = "none" THEN (r.ret \/ done_something)
                         ELSE done_something
    /\ ii' = IF r.err = "none" THEN ii + 1 ELSE ii
    /\ UNCHANGED <<manifests, cwd, args, runs, mi, gi, hi, original_pos, all_deps,
                   dir, fs0, hist>>

\* process_installation, lines 243-251: the next item of `files`
ProcessFile ==
    /\ pc = "items"
    /\ ii <= Len(CurGroup.files)
    /\ ProcessItem("files", FileItem(CurGroup, dir, CurGroup.files[ii]))

\* process_installation, lines 253-254: the next item of `renamed_files`
ProcessRenamed ==
    /\ pc = "items"
    /\ ii > Len(CurGroup.files)
    /\ ii <= Len(CurGroup.files) + Len(CurGroup.renamed_files)
    /\ ProcessItem("renamed_files",
                   RenamedItem(CurGroup, dir,
                               CurGroup.renamed_files[ii - Len(CurGroup.files)]))

\* process_installation, lines 256-257: the group's report, then the next group
GroupEnd ==
    /\ pc = "items"
    /\ ii > Len(CurGroup.files) + Len(CurGroup.renamed_files)
    /\ out' = IF ~done_something
              THEN Append(out, Event("nothing_done", gi, << >>, << >>, "none", "none"))
              ELSE out
    /\ gi' = gi + 1
    /\ pc' = "install"
    /\ UNCHANGED <<manifests, fs, cwd, args, runs, mi, ii, hi, original_pos,
                   all_deps, dir, done_something, fs0, hist>>

\* process_installation, line 259: every group was processed
InstallDone ==
    /\ pc = "install"
    /\ gi > Len(CurConfig.installation)
    /\ pc' = "post"
    /\ hi' = 1
    /\ UNCHANGED <<manifests, fs, cwd, args, runs, mi, gi, ii, original_pos,
                   all_deps, dir, done_something, fs0, out, hist>>

\* process_config_file, line 295: back to the saved working directory
LeaveConfig ==
    /\ pc = "leave"
    /\ cwd' = original_pos
    /\ mi' = mi + 1
    /\ pc' = "walk"
    /\ UNCHANGED <<manifests, fs, args, runs, gi, ii, hi, original_pos, all_deps,
                   dir, done_something, fs0, out, hist>>

\* Module level, lines 299-310: os.walk is exhausted, the program ends
WalkEnd ==
    /\ pc = "walk"
    /\ mi > Len(manifests)
    /\ pc' = "done"
    /\ UNCHANGED <<manifests, fs, cwd, args, runs, mi, gi, ii, hi, original_pos,
                   all_deps, dir, done_something, fs0, out, hist>>

Ended == pc \in {"done", "crashed", "exit"}

\* The program is invoked again, from the same directory, on what the last
\* invocation left.
StartRun ==
    /\ Ended
    /\ runs < MaxRuns
    /\ \E a \in RealArgs : args' = a
    /\ hist' = Append(hist, [args |-> args, fs0 |-> fs0, fs |-> fs, out |-> out, pc |-> pc])
    /\ runs' = runs + 1
    /\ cwd' = StartDir
    /\ original_pos' = StartDir
    /\ pc' = "walk"
    /\ mi' = 1
    /\ gi' = 0
    /\ ii' = 0
    /\ hi' = 0
    /\ all_deps' = TRUE
    /\ dir' = << >>
    /\ done_something' = FALSE
    /\ fs0' = fs
    /\ out' = << >>
    /\ UNCHANGED <<manifests, fs>>

Next ==
    \/ EnterConfig
    \/ CheckDependencies
    \/ RunPre
    \/ PreDone
    \/ GroupStart
    \/ ProcessFile
    \/ ProcessRenamed
    \/ GroupEnd
    \/ InstallDone
    \/ RunPost
    \/ PostDone
    \/ LeaveConfig
    \/ WalkEnd
    \/ StartRun

Spec == Init /\ [][Next]_vars

----------------------------------------------------------------------------
(* Vocabulary of the properties *)

PlainInstall == Args(FALSE, FALSE, FALSE, FALSE)     \* cue-pine
PlainUninstall == Args(TRUE, FALSE, FALSE, FALSE)       \* cue-pine -u

TheConfig == manifests[1].config
Manifests == 1..Len(manifests)
Groups(m) == manifests[m].config.installation
\* the working directory while manifest m is processed
WorkDir(m) == Chdir(StartDir, manifests[m].cwd)
GroupDir(m, g) == Comps(WorkDir(m), ReplaceHome(Groups(m)[g].dir))
\* the group an event belongs to
GroupOf(e) == Groups(e.m)[e.g]

IsItem(e) == e.ev \in {"files", "renamed_files"}
ItemEvents(o) == {k \in 1..Len(o) : IsItem(o[k])}

\* the run before the current one
Prev == hist[Len(hist)]

\* two invocations, the given command lines, the second one over
Twice(a1, a2) == runs = 2 /\ Ended /\ Prev.args = a1 /\ args = a2

Prefixes(c) == {SubSeq(c, 1, n) : n \in 1..Len(c)}

----------------------------------------------------------------------------
(* C1: idempotence of install.  After `install; install` the second run has
   changed nothing on the filesystem, process() returned False for every item
   and every group reported "Nothing done". *)
C1_SecondInstallIsNoOp ==
    Twice(PlainInstall, PlainInstall) =>
        /\ fs = Prev.fs
        /\ pc = "done"
        /\ \A k \in ItemEvents(out) : out[k].res # "action" /\ out[k].err = "none"
        /\ \A m \in Manifests : check_dependencies(manifests[m].config) =>
              \A g \in 1..Len(Groups(m)) : \E k \in 1..Len(out) :
                  out[k].ev = "nothing_done" /\ out[k].m = m /\ out[k].g = g

\* the group directories and their ancestors
C2_Residue ==
    UNION { UNION {Prefixes(GroupDir(m, g)) : g \in 1..Len(Groups(m))} : m \in Manifests }

(* C2: round trip.  After a successful `install` and an `uninstall` of the same
   manifest the filesystem is what it was before the install, except for group
   directories (and their ancestors) that the install created. *)
C2_RoundTrip ==
    (Twice(PlainInstall, PlainUninstall) /\ Prev.pc = "done") =>
        /\ pc = "done"
        /\ \A p \in DOMAIN fs \cup DOMAIN Prev.fs0 :
              \/ p \in DOMAIN fs /\ p \in DOMAIN Prev.fs0 /\ fs[p] = Prev.fs0[p]
              \/ p \in DOMAIN fs /\ p \notin DOMAIN Prev.fs0 /\ p \in C2_Residue
                 /\ fs[p] = Dir

(* C3: a dry run, install or uninstall, changes nothing on the filesystem and
   executes no pre or post command. *)
C3_DryRunChangesNothing ==
    args.dry_run =>
        /\ fs = fs0
        /\ \A k \in 1..Len(out) : out[k].ev \in {"pre", "post"} => out[k].res = "skipped"

\* what a run reports for its items and groups
C4_IsReport(e) == IsItem(e) \/ e.ev = "nothing_done"
C4_Line(e) == <<e.ev, e.g, e.src, e.dest, e.res>>
C4_Report(o) ==
    LET r == SelectSeq(o, C4_IsReport) IN [k \in 1..Len(r) |-> C4_Line(r[k])]

(* C4: a dry run reports what the real run reports.  A dry run and a real run
   of the same mode started from the same filesystem report the same per-item
   outcomes and the same "Nothing done" lines, in the same order. *)
C4_DryRunMirrorsRealRun ==
    ( /\ runs = 2 /\ Ended
      /\ Prev.args = [args EXCEPT !.dry_run = TRUE]
      /\ ~args.dry_run
      /\ Prev.fs0 = fs0 )
    => C4_Report(Prev.out) = C4_Report(out)

\* group g declares a condition that exits non-zero
C5_Skipped(e) == GroupOf(e).condition # NoKey /\ ExitCode(GroupOf(e).condition) # 0

(* C5: a group whose `condition` exits non-zero is skipped entirely: its
   directory is not created and process() is invoked for none of its items. *)
C5_FailedConditionSkipsGroup ==
    \A k \in 1..Len(out) :
        (out[k].ev \in {"group", "files", "renamed_files"} /\ C5_Skipped(out[k]))
            => (out[k].ev = "group" /\ out[k].res = "none")

(* C6: path flattening.  For every `files` specifier that holds a path
   separator, with or without strip_ext, the destination is the group directory
   joined with the final path segment of the (possibly stripped) specifier. *)
C6_Flattened ==
    \A k \in 1..Len(out) :
        (out[k].ev = "files" /\ Sep \in {out[k].src[i] : i \in 1..Len(out[k].src)})
        => LET G == GroupOf(out[k])
               spec == IF G.strip_ext THEN RsplitDot(out[k].src) ELSE out[k].src
           IN  out[k].dest = ReplaceHome(G.dir) \o <<Sep>> \o RpartitionSep(spec)

\* the specifier without the extension of its final path segment
C7_Stripped(file) ==
    LET k == LastIndexOf(file, Sep)
    IN  SubSeq(file, 1, k) \o RsplitDot(SubSeq(file, k + 1, Len(file)))

(* C7: extension stripping.  With strip_ext the resolver removes exactly the
   text from the last "." of the final path segment on; a specifier whose final
   segment has no "." is left as it is, also when an earlier segment has one.
   The destination is the stripped specifier, or its final segment, under the
   group directory. *)
C7_StripsFinalExtensionOnly ==
    \A k \in 1..Len(out) :
        (out[k].ev = "files" /\ GroupOf(out[k]).strip_ext)
        => LET d == ReplaceHome(GroupOf(out[k]).dir) \o <<Sep>>
               want == C7_Stripped(out[k].src)
           IN  out[k].dest \in {d \o want, d \o RpartitionSep(want)}

(* C8: renamed files are literal.  For every `renamed_files` entry the pair
   passed to process() is (src, <resolved dir>/<dest>), whatever strip_ext is
   and whatever separators or extensions src and dest hold. *)
C8_RenamedIsLiteral ==
    \A k \in 1..Len(out) :
        out[k].ev = "renamed_files"
        => LET G == GroupOf(out[k])
           IN  \E j \in 1..Len(G.renamed_files) :
                  /\ out[k].src = G.renamed_files[j].src
                  /\ out[k].dest = ReplaceHome(G.dir) \o <<Sep>> \o G.renamed_files[j].dest

\* process() was called for a renamed entry whose src holds a separator and
\* whose dest holds an extension, in a group that sets strip_ext
C8_Witness ==
    \E k \in 1..Len(out) :
        /\ out[k].ev = "renamed_files"
        /\ GroupOf(out[k]).strip_ext
        /\ out[k].src = SSub
        /\ out[k].dest = HOME \o <<Sep, "d", Sep>> \o SA

\* every mandatory dependency of manifest m is on the search path
C9_DepsResolve(m) ==
    \A i \in 1..Len(manifests[m].config.dependencies) :
        manifests[m].config.dependencies[i] \in OnPath

C9_IsPhase(e) == e.ev \in {"pre", "post", "group", "files", "renamed_files", "nothing_done"}

C9_Processed(m, type, n) ==
    \A i \in 1..n : \E k \in 1..Len(out) :
        out[k].m = m /\ out[k].ev = type /\ out[k].g = i

C9_AllProcessed(m) ==
    /\ C9_Processed(m, "pre", Len(manifests[m].config.pre))
    /\ C9_Processed(m, "group", Len(Groups(m)))
    /\ C9_Processed(m, "post", Len(manifests[m].config.post))

C9_Gated == ~args.uninstall /\ ~args.check_dependencies

(* C9: dependency gating (install mode, not check-only).  As claimed: when the
   run is over, the pre hooks, the groups and the post hooks of a manifest were
   all processed if and only if every name of its `dependencies` is on the
   search path. *)
C9_Original ==
    (C9_Gated /\ Ended) => \A m \in Manifests : C9_AllProcessed(m) <=> C9_DepsResolve(m)

(* C9, amended: a name of `dependencies` that is not on the search path
   prevents all three phases; when every name is on it the three phases are
   processed in full, unless the run is cut short by a pre hook that fails under
   --strict-pre or by an uncaught error raised during processing;
   `opt_dependencies` plays no part. *)
C9_DependencyGate ==
    C9_Gated => \A m \in Manifests :
        /\ (\E k \in 1..Len(out) : out[k].m = m /\ C9_IsPhase(out[k])) => C9_DepsResolve(m)
        /\ (Ended /\ C9_DepsResolve(m)) =>
              \/ C9_AllProcessed(m)
              \/ pc \in {"exit", "crashed"} /\ out[Len(out)].err # "none"
        /\ pc = "done" => (C9_AllProcessed(m) <=> C9_DepsResolve(m))

\* every mandatory dependency is found, an optional one is not, and the run
\* went through its pre hooks, its group and its post hooks
C9_Witness ==
    /\ C9_Gated
    /\ pc = "done"
    /\ TheConfig.dependencies = <<"sh">>
    /\ TheConfig.opt_dependencies = <<"nope">>
    /\ TheConfig.pre # << >>
    /\ TheConfig.post # << >>
    /\ C9_AllProcessed(1)

(* C10: check-only mode (-c).  Whatever the manifest declares, the run does
   nothing but the dependency check: no pre or post command, no group, no item,
   and the filesystem is left as it was. *)
C10_CheckOnlyDoesNothing ==
    args.check_dependencies =>
        /\ fs = fs0
        /\ \A k \in 1..Len(out) : out[k].ev = "check_dependencies"

\* a check-only install run is over for a manifest that declares hooks and no
\* dependencies
C10_Witness ==
    /\ args.check_dependencies
    /\ ~args.uninstall
    /\ pc = "done"
    /\ TheConfig.dependencies = << >>
    /\ TheConfig.pre # << >>
    /\ TheConfig.post # << >>

\* a pre command that was run under --strict-pre and exited non-zero
C11_FailedStrictPre(e) ==
    e.ev = "pre" /\ e.res = "called" /\ args.strict_pre /\ ExitCode(e.src) # 0

(* C11: strict pre-hook fail-fast (install, not a dry run, --strict-pre).  A
   pre command that exits non-zero is the last thing the run does: no later pre
   command, no installation group, no item and no post command follows it, and
   the program ends with exit(1). *)
C11_StrictPreFailFast ==
    \A k \in 1..Len(out) :
        C11_FailedStrictPre(out[k]) =>
            /\ k = Len(out)
            /\ out[k].err = "exit"
            /\ pc = "exit"

\* the first of two pre commands failed under --strict-pre, in a manifest that
\* also declares post commands
C11_Witness ==
    /\ pc = "exit"
    /\ Len(out) >= 1
    /\ C11_FailedStrictPre(out[Len(out)])
    /\ out[Len(out)].g = 1
    /\ TheConfig.pre = <<CmdFail, CmdOk>>
    /\ TheConfig.post # << >>
    /\ fs = fs0

\* the run called no pre or post command and made no dependency check
C12_ReconcilerOnly ==
    \A k \in 1..Len(out) : out[k].ev \notin {"pre", "post", "check_dependencies"}

\* every installation group of every manifest was processed
C12_EveryGroup ==
    \A m \in Manifests : \A g \in 1..Len(Groups(m)) :
        \E k \in 1..Len(out) : out[k].ev = "group" /\ out[k].m = m /\ out[k].g = g

(* C12: uninstall mode runs the reconciler only.  As claimed: in uninstall mode
   no pre or post command is executed and no dependency check is made, and the
   installation groups are processed whatever the dependencies are. *)
C12_Original ==
    args.uninstall =>
        /\ C12_ReconcilerOnly
        /\ pc = "done" => C12_EveryGroup

(* C12, amended: in uninstall mode no pre or post command is executed and no
   dependency check is made; unless the run is check-only (-c), the installation
   groups are processed whatever the dependencies are; a check-only uninstall
   processes nothing at all. *)
C12_UninstallRunsReconcilerOnly ==
    args.uninstall =>
        /\ C12_ReconcilerOnly
        /\ (pc = "done" /\ ~args.check_dependencies) => C12_EveryGroup
        /\ args.check_dependencies => out = << >>

\* an uninstall is over that removed the item of a manifest whose mandatory
\* dependency is missing and that declares a pre command
C12_Witness ==
    /\ args.uninstall
    /\ ~args.dry_run
    /\ pc = "done"
    /\ TheConfig.dependencies = <<"nope">>
    /\ TheConfig.pre # << >>
    /\ \E k \in 1..Len(out) :
          /\ out[k].m = 1 /\ out[k].ev = "files" /\ out[k].res = "action"
          /\ ~Exists(fs, Comps(StartDir, out[k].dest))
          /\ Exists(fs0, Comps(StartDir, out[k].dest))

\* manifest m failed: a pre command of it exited non-zero under --strict-pre, or
\* one of its mandatory dependencies is not on the search path
C13_Failed(m) ==
    \E k \in 1..Len(out) :
        /\ out[k].m = m
        /\ \/ out[k].ev = "pre" /\ out[k].res = "called" /\ args.strict_pre
              /\ ExitCode(out[k].src) # 0
           \/ out[k].ev = "check_dependencies" /\ out[k].res = "unmet"

(* C13: a failure of one manifest does not stop the later ones.  When the run
   is over, every manifest the walk found after a failed manifest has been
   processed (its dependency check, at least, was made). *)
C13_LaterManifestsProcessed ==
    Ended =>
        \A m \in Manifests : C13_Failed(m) =>
            \A n \in Manifests : n > m => \E k \in 1..Len(out) : out[k].m = n

\* the step is a process() call; its event is the last of out'
C14_Called == Len(out') = Len(out) + 1 /\ IsItem(out'[Len(out')])

\* the source of the call is a local path that does not exist, its destination
\* is absent, and the mode is install
C14_MissingSource(e) ==
    /\ ~args.uninstall
    /\ ~EndsWithGit(e.src)
    /\ ~StartsWithHttp(e.src)
    /\ ~Exists(fs, Comps(cwd, e.src))
    /\ ~Exists(fs, Comps(cwd, e.dest))

\* nothing is at the destination, not even a link, and the group goes on with
\* its next item
C14_Skipped(e) ==
    /\ e.res = "missing"
    /\ e.err = "none"
    /\ LET l == Locate(fs', Comps(cwd, e.dest))
       IN  l.st = "ok" => l.path \notin DOMAIN fs'
    /\ \A p \in DOMAIN fs' : p \in DOMAIN fs /\ fs'[p] = fs[p]
    /\ done_something' = done_something
    /\ pc' = "items"
    /\ ii' = ii + 1
    /\ gi' = gi /\ mi' = mi

\* when the run ends normally every item of a group that had a missing source
\* was passed to process() and every group was entered
C14_Continued ==
    pc = "done" =>
        \A k \in 1..Len(out) : out[k].res = "missing" =>
            /\ Cardinality({j \in ItemEvents(out) : out[j].m = out[k].m /\ out[j].g = out[k].g})
                  = Len(GroupOf(out[k]).files) + Len(GroupOf(out[k]).renamed_files)
            /\ \A g \in 1..Len(Groups(out[k].m)) :
                  \E j \in 1..Len(out) :
                      out[j].ev = "group" /\ out[j].m = out[k].m /\ out[j].g = g

(* C14: a missing local source is a per-item failure (install mode).  When
   process() is called for an item whose source is neither a .git nor an http
   source and does not exist, and whose destination is absent, nothing is
   created at the destination, the call returns False (the group's
   done_something is left as it was), no error is raised, and the later items
   of the group and the later groups are still processed. *)
C14_MissingSourceIsSkipped ==
    /\ [][C14_Called /\ C14_MissingSource(out'[Len(out')]) => C14_Skipped(out'[Len(out')])]_vars
    /\ []C14_Continued

\* a real install is over in which the first item of the first group had a
\* missing source, the second item of that group was linked and the second
\* group was processed
C14_Witness ==
    /\ pc = "done"
    /\ args = PlainInstall
    /\ \E k \in 1..Len(out) :
          /\ out[k].res = "missing" /\ out[k].g = 1 /\ out[k].src = SMissing
          /\ \E j \in (k + 1)..Len(out) :
                out[j].ev = "files" /\ out[j].g = 1 /\ out[j].res = "action"
          /\ \E j \in (k + 1)..Len(out) :
                out[j].ev = "files" /\ out[j].g = 2 /\ out[j].res = "action"

\* the local sources manifest m declares, as paths from the root
C15_Sources(m) ==
    LET declared ==
            UNION { {G.files[i] : i \in 1..Len(G.files)}
                    \cup {G.renamed_files[i].src : i \in 1..Len(G.renamed_files)} :
                    G \in {Groups(m)[g] : g \in 1..Len(Groups(m))} }
    IN  { Comps(WorkDir(m), s) : s \in {d \in declared : ~StartsWithHttp(d)} }

(* C15: uninstall never touches sources.  During a real (not dry-run) uninstall
   every declared source that was in the manifest's working directory when the
   run started is still there, unchanged, also when a group's directory is the
   working directory itself. *)
C15_UninstallKeepsSources ==
    (args.uninstall /\ ~args.dry_run) =>
        \A m \in Manifests : \A p \in C15_Sources(m) :
            p \in DOMAIN fs0 => (p \in DOMAIN fs /\ fs[p] = fs0[p])

\* whether the path c names a symbolic link whose target does not exist
C16_IsDangling(f, c) ==
    LET l == Locate(f, c)
    IN  /\ l.st = "ok"
        /\ l.path \in DOMAIN f
        /\ f[l.path].kind = "link"
        /\ ~Exists(f, c)

\* a real install step for an existing local source whose destination holds a
\* dangling link
C16_StaleDestination(e) ==
    /\ ~args.uninstall
    /\ ~args.dry_run
    /\ ~EndsWithGit(e.src)
    /\ ~StartsWithHttp(e.src)
    /\ Exists(fs, Comps(cwd, e.src))
    /\ C16_IsDangling(fs, Comps(cwd, e.dest))

\* the stale link was replaced by a link to the source, without an error
C16_Replaced(e) ==
    /\ e.res = "action"
    /\ e.err = "none"
    /\ fs'[Locate(fs, Comps(cwd, e.dest)).path] = Link(cwd \o <<Sep>> \o e.src)
    /\ Exists(fs', Comps(cwd, e.dest))
    /\ done_something'
    /\ pc' = "items"

(* C16: dangling-link cleanup on install (not a dry run).  When process() is
   called for an item with an existing local source and the destination holds a
   symbolic link whose target does not exist, the stale link is removed, the
   symlink is created without a collision error, and the destination then holds
   a valid link to the source. *)
C16_DanglingLinkIsReplaced ==
    [][(Len(out') = Len(out) + 1 /\ IsItem(out'[Len(out')])
        /\ C16_StaleDestination(out'[Len(out')]))
       => C16_Replaced(out'[Len(out')])]_vars

\* the first run replaced the dangling link $HOME/d/a.s by a link to /w/a.s
C16_Witness ==
    /\ runs = 1
    /\ args = PlainInstall
    /\ Append(HD, SA) \in DOMAIN fs0
    /\ fs0[Append(HD, SA)] = Link(Gone)
    /\ Append(HD, SA) \in DOMAIN fs
    /\ fs[Append(HD, SA)] = Link(StartDir \o <<Sep>> \o SA)
    /\ Len(out) >= 1
    /\ out[Len(out)].ev = "files"
    /\ out[Len(out)].res = "action"
    /\ out[Len(out)].err = "none"

\* the text without its ".git" suffix
C17_StripGit(s) == IF EndsWithGit(s) THEN SubSeq(s, 1, Len(s) - 2) ELSE s

(* C17: git clone destination.  In a real install, every item whose source and
   computed destination both end with ".git" is cloned into the directory named
   by the destination without that suffix, and nothing is created at the
   suffixed path. *)
C17_CloneAtStrippedPath ==
    (~args.uninstall /\ ~args.dry_run) =>
        \A k \in ItemEvents(out) :
            ( /\ EndsWithGit(out[k].src) /\ EndsWithGit(out[k].dest)
              /\ out[k].res = "action" /\ out[k].err = "none" )
            => /\ Exists(fs, Comps(WorkDir(out[k].m), C17_StripGit(out[k].dest)))
               /\ ~Exists(fs, Comps(WorkDir(out[k].m), out[k].dest))

(* C18: uninstall transition (not a dry run).  Every destination that existed
   when process() was called in uninstall mode, be it a plain file, a symbolic
   link or a directory, is absent afterwards, and the call raised no error, so
   that the run goes on with the next item. *)
C18_UninstallRemovesDestination ==
    (args.uninstall /\ ~args.dry_run) =>
        \A k \in ItemEvents(out) :
            out[k].res = "action" =>
                /\ out[k].err = "none"
                /\ ~Exists(fs, Comps(WorkDir(out[k].m), out[k].dest))
                /\ pc # "crashed"

\* a real install step for an existing local source whose destination is absent
C19_InstallStep(e) ==
    /\ Len(out') = Len(out) + 1
    /\ ~args.uninstall
    /\ ~args.dry_run
    /\ ~EndsWithGit(e.src)
    /\ ~StartsWithHttp(e.src)
    /\ Exists(fs, Comps(cwd, e.src))
    /\ ~Exists(fs, Comps(cwd, e.dest))

\* the destination holds a link to the absolute path of the source, in a
\* directory that exists
C19_Linked(e) ==
    /\ e.res = "action"
    /\ e.err = "none"
    /\ LET l == Locate(fs', Comps(cwd, e.dest))
       IN  /\ l.st = "ok"
           /\ l.path \in DOMAIN fs'
           /\ fs'[l.path] = Link(cwd \o <<Sep>> \o e.src)

(* C19: install transition (not a dry run).  For every `files` or
   `renamed_files` item whose source is an existing local path and whose
   destination is absent, the group directory and the parent directory of the
   destination exist after the call and the destination holds a symbolic link to
   the working directory joined with the source, whatever strip_ext is and
   whatever separators the specifier or `dest` holds. *)
C19_InstallLeavesLink ==
    [][(Len(out') > 0 /\ IsItem(out'[Len(out')]) /\ C19_InstallStep(out'[Len(out')]))
       => C19_Linked(out'[Len(out')])]_vars

\* a process() call that is a no-op: uninstall of a destination whose existence
\* check is false, or install to a destination that exists
C20_NoOpStep(e) ==
    /\ Len(out') = Len(out) + 1
    /\ \/ args.uninstall /\ ~Exists(fs, Comps(cwd, e.dest))
       \/ ~args.uninstall /\ Exists(fs, Comps(cwd, e.dest))

(* C20: no-op transitions leave the filesystem unchanged.  A process() call in
   uninstall mode on a destination whose existence check is false (a dangling
   symbolic link included), or in install mode on a destination that exists,
   returns False, raises no error and changes nothing on the filesystem. *)
C20_NoOpChangesNothing ==
    [][(Len(out') > 0 /\ IsItem(out'[Len(out')]) /\ C20_NoOpStep(out'[Len(out')]))
       => /\ out'[Len(out')].res = "none"
          /\ out'[Len(out')].err = "none"
          /\ done_something' = done_something
          /\ fs' = fs]_vars

\* install, not a dry run, no --strict-pre, not check-only
C21_Scope ==
    ~args.uninstall /\ ~args.dry_run /\ ~args.strict_pre /\ ~args.check_dependencies

\* every mandatory dependency of manifest m is on the search path
C21_DepsMet(m) ==
    \A i \in 1..Len(manifests[m].config.dependencies) :
        manifests[m].config.dependencies[i] \in OnPath

C21_Line(e) == <<e.ev, e.g, e.src>>

\* what the run did for manifest m, in order (the "Nothing done" lines left out)
C21_Trace(m) ==
    LET Mine(e) == e.m = m /\ e.ev # "nothing_done"
        mine == SelectSeq(out, Mine)
    IN  [k \in 1..Len(mine) |-> C21_Line(mine[k])]

C21_Hooks(type, commands) == [i \in 1..Len(commands) |-> <<type, i, commands[i]>>]

C21_Items(g, G) ==
    [i \in 1..Len(G.files) |-> <<"files", g, G.files[i]>>]
    \o [i \in 1..Len(G.renamed_files) |-> <<"renamed_files", g, G.renamed_files[i].src>>]

RECURSIVE C21_GroupsFrom(_, _)
C21_GroupsFrom(m, g) ==
    IF g > Len(Groups(m)) THEN << >>
    ELSE <<<<"group", g, << >>>>>> \o C21_Items(g, Groups(m)[g]) \o C21_GroupsFrom(m, g + 1)

\* the declared order: the dependency check, the pre commands, the groups with
\* their files and then their renamed_files, the post commands
C21_Declared(m) ==
    <<<<"check_dependencies", 0, << >>>>>>
    \o C21_Hooks("pre", manifests[m].config.pre)
    \o C21_GroupsFrom(m, 1)
    \o C21_Hooks("post", manifests[m].config.post)

C21_IsPrefix(s, t) == Len(s) <= Len(t) /\ s = SubSeq(t, 1, Len(s))

\* what was done for m so far follows the declared order, each step once, and
\* every command was really run
C21_InOrder(m) ==
    /\ C21_IsPrefix(C21_Trace(m), C21_Declared(m))
    /\ \A k \in 1..Len(out) :
          (out[k].m = m /\ out[k].ev \in {"pre", "post"}) => out[k].res = "called"

\* every declared pre and post command of m was executed exactly once
C21_Executed(m) ==
    \A type \in {"pre", "post"} : \A i \in 1..Len(manifests[m].config[type]) :
        Cardinality({k \in 1..Len(out) :
                        /\ out[k].m = m /\ out[k].ev = type /\ out[k].g = i
                        /\ out[k].res = "called"}) = 1

(* C21: phase ordering (install, not a dry run, dependencies met, no strict
   mode).  For one manifest the dependency check comes first, then every pre
   command in declared order, then the groups in manifest order with their
   `files` items before their `renamed_files` items, then every post command in
   declared order; when the run is over every declared command has been
   executed exactly once, whatever the exit codes of the earlier commands. *)
C21_PhaseOrdering ==
    C21_Scope =>
        \A m \in Manifests : C21_DepsMet(m) =>
            /\ C21_InOrder(m)
            /\ Ended => C21_Executed(m)

\* process_config_file is not running: it has not been entered yet or it was
\* left, by its return, by exit(1) or by an error nothing catches
C22_Outside == pc \in {"walk", "done", "exit", "crashed"}

(* C22: working-directory restoration.  Whenever process_config_file has been
   left, by normal completion, with unmet dependencies, in check-only mode or by
   an error raised while an item or a hook was processed, the working directory
   of the process is the directory the program was started in. *)
C22_WorkingDirectoryRestored ==
    C22_Outside => cwd = StartDir

====
